---------------------------- MODULE Spec2Model ----------------------------
(***************************************************************************)
(* A model of src/main.py: the VideoTracker pipeline (context entry, the   *)
(* frame loop of run, image_track with its class filter, the per-player    *)
(* box dictionary and transform_playerBoxes_to_list) and the pure function *)
(* augment_deepsort_bbox.                                                  *)
(*                                                                         *)
(* The DeepSORT tracker behind self.deepsort.update lives in the package   *)
(* action_recognition.DeepSORT_yolov5.deep_sort, which main.py imports but *)
(* which is not among the sources; its per-frame cycle is modelled from    *)
(* section 4.3 of the specification (the definitions marked "tracker").    *)
(*                                                                         *)
(* Pixel quantities of the box arithmetic are integers counted in units of *)
(* 1/Unit pixel, so that the factors 1.5, 1.1 and 1.2 and the halvings of  *)
(* the source are exact; floating-point rounding is not modelled.          *)
(***************************************************************************)
EXTENDS Integers, Sequences, FiniteSets, TLC

VARIABLES
    io,              \* the input the pipeline is pointed at: args.cam, the file, the device
    pc,              \* "constructed", "entered", "aborted", "done"
    frame_interval,  \* args.frame_interval
    max_age,         \* tracker configuration: frames a track may go unmatched
    n_init,          \* tracker configuration: hits required for confirmation
    idx_frame,       \* run: idx_frame
    videoFrames,     \* run: videoFrames, as the sequence of the frames' shapes
    last_out,        \* run: last_out
    outputs,         \* run: outputs of the current iteration
    playerBoxes,     \* run: playerBoxes, in insertion order: [key, boxes: frame -> bbox]
    playerBoxes_list,\* run: the list returned by transform_playerBoxes_to_list (<< >> before)
    colors,          \* run: colors
    tracks,          \* tracker: the live track table, in creation order
    next_id,         \* tracker: the next identity to hand out
    res,             \* image_track: the detector's rows of the last processed frame
    passed,          \* image_track: the rows handed to deepsort.update in that frame
    lastFrame,       \* history: what happened on the last frame read
    emitted,         \* history: for each frame read, the identities in its outputs
    absent,          \* history: live track -> frames read in a row without a detection of it
    retired,         \* history: identities of the tracks purged from the table
    recordedUnder,   \* history: <<key of playerBoxes, track recorded under it>>
    aug              \* augment_deepsort_bbox: [in, out] of the last application

vars == <<io, pc, frame_interval, max_age, n_init, idx_frame, videoFrames,
          last_out, outputs, playerBoxes, playerBoxes_list, colors, tracks,
          next_id, res, passed, lastFrame, emitted, absent, retired,
          recordedUnder, aug>>

pipelineVars == <<io, pc, frame_interval, max_age, n_init, idx_frame,
                  videoFrames, last_out, outputs, playerBoxes,
                  playerBoxes_list, colors, tracks, next_id, res, passed,
                  lastFrame, emitted, absent, retired, recordedUnder>>

-----------------------------------------------------------------------------
(* Bounds *)

MaxFrames == 4      \* frames the capture delivers before grab() fails
MaxDets == 2        \* rows the detector returns for one frame
MaxInterval == 2    \* args.frame_interval ranges over 1..MaxInterval
MaxCoord == 2       \* augment inputs: x, y in 0..MaxCoord pixels
MaxSide == 3        \* augment inputs: width, height in 0..MaxSide pixels

\* The tracker configurations tried (configs/deep_sort.yaml is not among the
\* sources): min_hits 2 and the default 3, with a short max_age so that a
\* track can age out within MaxFrames frames.
TrackerConfigs == {[max_age |-> 1, n_init |-> 2], [max_age |-> 1, n_init |-> 3]}

-----------------------------------------------------------------------------
(* Helpers *)

Max(a, b) == IF a >= b THEN a ELSE b
Min(a, b) == IF a <= b THEN a ELSE b
Range(s) == {s[i] : i \in DOMAIN s}

\* A variable of run that holds None or a tensor of rows.
None == [none |-> TRUE, rows |-> << >>]
Some(rows) == [none |-> FALSE, rows |-> rows]

-----------------------------------------------------------------------------
(* augment_deepsort_bbox, src/main.py 38-53 *)

\* Pixel quantities are integers in units of 1/Unit pixel: one factor 2 for
\* the halvings, two factors 10 for the two successive ratios in tenths.
Unit == 2 * 10 * 10

\* The default ratios of augment_deepsort_bbox (1.5 and 1.2), in tenths.
DefaultWidthRatio == 15
DefaultHeightRatio == 12

\* A variant of the function that subtracts the half extent from the corner
\* instead of from the center.
AugmentFromCorner(bbox, frame_width, frame_height, width_ratio, height_ratio) ==
    LET x_augmented == Max(0, bbox[1] - (bbox[3] * width_ratio) \div 20)
        y_augmented == Max(0, bbox[2] - (bbox[4] * height_ratio) \div 20)
        width_augmented ==
            Min((bbox[3] * width_ratio) \div 10, frame_width - x_augmented)
        height_augmented ==
            Min((bbox[4] * height_ratio) \div 10, frame_height - y_augmented)
    IN  <<x_augmented, y_augmented, width_augmented, height_augmented>>

\* bbox is <<x, y, width, height>>; the ratios are in tenths.
augment_deepsort_bbox(bbox, frame_width, frame_height, width_ratio, height_ratio) ==
    LET x_center == bbox[1] + bbox[3] \div 2
        y_center == bbox[2] + bbox[4] \div 2
        x_augmented == Max(0, x_center - (bbox[3] * width_ratio) \div 20)
        y_augmented == Max(0, y_center - (bbox[4] * height_ratio) \div 20)
        width_augmented ==
            Min((bbox[3] * width_ratio) \div 10, frame_width - x_augmented)
        height_augmented ==
            Min((bbox[4] * height_ratio) \div 10, frame_height - y_augmented)
    IN  <<x_augmented, y_augmented, width_augmented, height_augmented>>

\* The inputs the function is applied to in SpecAugment.
FrameSides == {4 * Unit, 8 * Unit}
RatioChoices == {<<DefaultWidthRatio, DefaultHeightRatio>>, <<20, 5>>}

AugInputs ==
    {[bbox |-> <<x * Unit, y * Unit, w * Unit, h * Unit>>,
      frame_width |-> fw, frame_height |-> fh,
      width_ratio |-> r[1], height_ratio |-> r[2]] :
        x \in 0..MaxCoord, y \in 0..MaxCoord,
        w \in 0..MaxSide, h \in 0..MaxSide,
        fw \in FrameSides, fh \in FrameSides, r \in RatioChoices}

ApplyAugment ==
    /\ ~aug.applied
    /\ \E a \in AugInputs :
          aug' = [applied |-> TRUE, in |-> a,
                  out |-> augment_deepsort_bbox(a.bbox, a.frame_width,
                              a.frame_height, a.width_ratio, a.height_ratio)]
    /\ UNCHANGED pipelineVars

-----------------------------------------------------------------------------
(* The detector's output, as image_track receives it (results.xyxy[0]) *)

\* img0.shape of every frame of the video: <<height, width>>, in pixels.
FrameShape == <<40, 60>>

\* The corner boxes <<x1, y1, x2, y2>> the detector reports, in pixels: two
\* objects far apart, and a box of no width and of negative height.
BoxA == <<0, 0, 8, 20>>
BoxB == <<30, 10, 50, 30>>
BoxZ == <<0, 36, 0, 30>>

\* The class index image_track keeps (person), main.py 232.
PersonClass == 0

\* The rows the detector can report: x1 y1 x2 y2, confidence (in percent) and
\* class.  Beside the two persons: a person row of non-positive size, a
\* person row whose confidence is outside [0,1], a row of another class, and
\* a row whose class id is outside the detector's label list.
DetectorRows ==
    { [xyxy |-> BoxA, conf |-> 90,  cls |-> PersonClass],
      [xyxy |-> BoxB, conf |-> 90,  cls |-> PersonClass],
      [xyxy |-> BoxZ, conf |-> 90,  cls |-> PersonClass],
      [xyxy |-> BoxB, conf |-> 150, cls |-> PersonClass],
      [xyxy |-> BoxA, conf |-> 90,  cls |-> 1],
      [xyxy |-> BoxB, conf |-> 90,  cls |-> 99] }

\* The rank of a row in the detector's (fixed) reporting order.
RowRank(d) ==
    (IF d.xyxy = BoxA THEN 0 ELSE IF d.xyxy = BoxB THEN 1 ELSE 2) * 1000
    + d.cls * 2 + (IF d.conf > 100 THEN 1 ELSE 0)

\* The detector suppresses duplicates (no two rows of one frame have the same
\* box and class) and reports its rows in a fixed order.
DetectorOutputs ==
    UNION { { r \in [1..n -> DetectorRows] :
                \A i, j \in 1..n :
                   /\ (i < j) => RowRank(r[i]) < RowRank(r[j])
                   /\ (r[i].xyxy = r[j].xyxy /\ r[i].cls = r[j].cls) => i = j }
            : n \in 0..MaxDets }

\* What section 7 of the specification calls a well-formed detection.
WellFormed(d) ==
    /\ d.xyxy[3] - d.xyxy[1] > 0
    /\ d.xyxy[4] - d.xyxy[2] > 0
    /\ d.conf >= 0 /\ d.conf <= 100
    /\ d.cls \in 0..79

\* xyxy2xywh of yolov5: corners to <<center x, center y, width, height>>.
xyxy2xywh(b) ==
    <<(b[1] + b[3]) \div 2, (b[2] + b[4]) \div 2, b[3] - b[1], b[4] - b[2]>>

\* A filter that keeps every row.
KeepAllRows(rows) == rows

\* main.py 232: pred = res[res[:, -1] == 0]
PersonFilter(rows) == SelectSeq(rows, LAMBDA d : d.cls = PersonClass)

-----------------------------------------------------------------------------
(* tracker: deepsort.update, modelled from section 4.3 of the specification *)

\* The snapshot's corner form of a track's box.
ToCorners(b) ==
    <<b[1] - b[3] \div 2, b[2] - b[4] \div 2, b[1] + b[3] \div 2, b[2] + b[4] \div 2>>

\* Gating: the objects of the model are either at the same place or far
\* apart, so a track and a detection are eligible exactly when the boxes agree.
Eligible(t, d) == t.box = d

\* The assignment: track i is paired with the first eligible detection that no
\* earlier track is eligible for.
MatchOf(ts, dets, i) ==
    { j \in DOMAIN dets :
        /\ Eligible(ts[i], dets[j])
        /\ \A k \in 1..(j - 1) : ~Eligible(ts[i], dets[k])
        /\ \A h \in 1..(i - 1) : ~Eligible(ts[h], dets[j]) }

IsMatchedTrack(ts, dets, i) == MatchOf(ts, dets, i) # {}
IsMatchedDet(ts, dets, j) == \E i \in DOMAIN ts : j \in MatchOf(ts, dets, i)

\* Step 3: a matched track.
Corrected(t, minHits) ==
    [t EXCEPT !.hits = @ + 1,
              !.time_since_update = 0,
              !.state = IF t.hits + 1 >= minHits THEN "confirmed" ELSE @]

\* Step 4: an unmatched track.
Missed(t, maxAge) ==
    [t EXCEPT !.time_since_update = @ + 1,
              !.state = IF t.state = "tentative" \/ t.time_since_update + 1 > maxAge
                        THEN "deleted" ELSE @]

\* Step 5: a track spawned from an unmatched detection.
Spawned(d, id, frame) ==
    [track_id |-> id, box |-> d, state |-> "tentative", hits |-> 1,
     time_since_update |-> 0, born |-> frame]

\* Step 7: the snapshot, the confirmed tracks in table order.  born is carried
\* along to tell the tracks apart; it is not part of the row.
Snapshot(ts) ==
    LET shown == SelectSeq(ts, LAMBDA t : t.state = "confirmed")
    IN  [i \in DOMAIN shown |->
            [xyxy |-> ToCorners(shown[i].box), track_id |-> shown[i].track_id,
             born |-> shown[i].born]]

\* One call of deepsort.update(bbox_xywh, confs, im0) on frame `frame`.
Update(ts, nid, dets, maxAge, minHits, frame) ==
    LET stepped == [i \in DOMAIN ts |->
                       IF IsMatchedTrack(ts, dets, i)
                       THEN Corrected(ts[i], minHits)
                       ELSE Missed(ts[i], maxAge)]
        fresh   == SelectSeq([j \in DOMAIN dets |-> [d |-> dets[j], j |-> j]],
                             LAMBDA e : ~IsMatchedDet(ts, dets, e.j))
        born    == [k \in DOMAIN fresh |-> Spawned(fresh[k].d, nid + k - 1, frame)]
        all     == stepped \o born
    IN  [tracks  |-> SelectSeq(all, LAMBDA t : t.state # "deleted"),
         purged  |-> {t.track_id : t \in {u \in Range(all) : u.state = "deleted"}},
         next_id |-> nid + Len(fresh),
         outputs |-> Snapshot(SelectSeq(all, LAMBDA t : t.state # "deleted"))]

-----------------------------------------------------------------------------
(* VideoTracker.image_track, src/main.py 200-257 *)

\* The detector is applied to the frame (rows), the person rows are kept, and
\* deepsort.update is called only when a person row is left; otherwise the
\* result is the empty (0, 5) tensor and the tracker is left alone.
image_track(rows, ts, nid, maxAge, minHits, frame) ==
    LET det == PersonFilter(rows)
    IN  IF Len(det) > 0
        THEN LET bbox_xywh == [j \in DOMAIN det |-> xyxy2xywh(det[j].xyxy)]
                 u == Update(ts, nid, bbox_xywh, maxAge, minHits, frame)
             IN  [outputs |-> u.outputs, tracks |-> u.tracks,
                  next_id |-> u.next_id, purged |-> u.purged,
                  passed |-> det, updated |-> TRUE]
        ELSE [outputs |-> << >>, tracks |-> ts, next_id |-> nid,
              purged |-> {}, passed |-> << >>, updated |-> FALSE]

-----------------------------------------------------------------------------
(* VideoTracker.run, src/main.py 144-198, and transform_playerBoxes_to_list *)

\* A variant that reads the id from the first column of the row.
PlayerIdFirstColumn(output) == output.xyxy[1]

\* main.py 175: player_id = output[-1]
PlayerId(output) == output.track_id

\* main.py 174: bbox = output[0:4]
Bbox(output) == output.xyxy

Keys(pb) == {pb[i].key : i \in DOMAIN pb}

\* A variant of the loop that files each row under its position in outputs
\* instead of under its identity.
RECURSIVE RecordRows(_, _, _, _)
RecordRows(pb, outs, f, k) ==
    IF outs = << >> THEN pb
    ELSE LET pb1 == IF k \in Keys(pb) THEN pb
                    ELSE Append(pb, [key |-> k, boxes |-> << >>])
             pb2 == [i \in DOMAIN pb1 |->
                        IF pb1[i].key = k
                        THEN [pb1[i] EXCEPT !.boxes = (f :> Bbox(Head(outs))) @@ @]
                        ELSE pb1[i]]
         IN  RecordRows(pb2, Tail(outs), f, k + 1)

RecordByRowIndex(pb, outs, f) == RecordRows(pb, outs, f, 1)

\* main.py 173-180: the loop over the rows of outputs on frame f.
RECURSIVE RecordOutputs(_, _, _)
RecordOutputs(pb, outs, f) ==
    IF outs = << >> THEN pb
    ELSE LET output == Head(outs)
             player_id == PlayerId(output)
             pb1 == IF player_id \in Keys(pb) THEN pb
                    ELSE Append(pb, [key |-> player_id, boxes |-> << >>])
             pb2 == [i \in DOMAIN pb1 |->
                        IF pb1[i].key = player_id
                        THEN [pb1[i] EXCEPT !.boxes = (f :> Bbox(output)) @@ @]
                        ELSE pb1[i]]
         IN  RecordOutputs(pb2, Tail(outs), f)

\* main.py 279: the first augmentation, <<x1, y1, 1.5 * (x2 - x1), 1.1 * (y2 - y1)>>,
\* from pixels to units.
InitialAugment(b) ==
    <<b[1] * Unit, b[2] * Unit,
      (15 * (b[3] - b[1]) * Unit) \div 10, (11 * (b[4] - b[2]) * Unit) \div 10>>

\* main.py 259-288.  frames is the sequence of frame shapes; frame i of the
\* source is frames[i + 1].
transform_playerBoxes_to_list(frames, pb) ==
    [n \in DOMAIN frames |->
        [r \in DOMAIN pb |->
            IF (n - 1) \notin DOMAIN pb[r].boxes
            THEN <<0, 0, 0, 0>>
            ELSE augment_deepsort_bbox(InitialAugment(pb[r].boxes[n - 1]),
                     frames[n][2] * Unit, frames[n][1] * Unit,
                     DefaultWidthRatio, DefaultHeightRatio)]]

\* main.py 193-196: one colour per row of the first frame's array.  The random
\* colour itself is not modelled.
Colors(list) ==
    IF Len(list) # 0 THEN [i \in 1..Len(list[1]) |-> "rgb"] ELSE << >>

IdsOf(outs) == {outs.rows[i].track_id : i \in DOMAIN outs.rows}
LiveIds == {tracks[i].track_id : i \in DOMAIN tracks}

\* The boxes of the rows handed to the tracker, as the tracker sees them.
SeenBoxes(rows) == {xyxy2xywh(rows[j].xyxy) : j \in DOMAIN rows}

-----------------------------------------------------------------------------
(* The inputs the pipeline can be pointed at *)

\* cam: args.cam; isfile: os.path.isfile(args.input_path); isOpened: the
\* capture has been opened; ret: the camera delivers a frame.
IOCases ==
    { [cam |-> -1, isfile |-> TRUE,  isOpened |-> TRUE,  ret |-> TRUE],
      [cam |-> -1, isfile |-> TRUE,  isOpened |-> FALSE, ret |-> FALSE],
      [cam |-> -1, isfile |-> FALSE, isOpened |-> FALSE, ret |-> FALSE],
      [cam |-> 0,  isfile |-> FALSE, isOpened |-> TRUE,  ret |-> TRUE],
      [cam |-> 0,  isfile |-> FALSE, isOpened |-> TRUE,  ret |-> FALSE],
      [cam |-> 0,  isfile |-> FALSE, isOpened |-> FALSE, ret |-> FALSE] }

IOFailed(i) == IF i.cam # -1 THEN ~i.ret ELSE ~i.isfile \/ ~i.isOpened

\* __enter__ without its assertions.
EnterUnchecked(i) == TRUE

\* main.py 103-118: the assertions of __enter__ pass.
EnterPasses(i) ==
    IF i.cam # -1 THEN i.ret
    ELSE i.isfile /\ i.isOpened

\* self.vdo.grab() delivers a frame: the capture is open and the video has not
\* ended (it ends after MaxFrames frames at the latest).
Grabbable == io.isOpened /\ io.ret /\ Len(videoFrames) < MaxFrames

-----------------------------------------------------------------------------
(* The state machine *)

Init ==
    /\ io \in IOCases
    /\ pc = "constructed"
    /\ frame_interval \in 1..MaxInterval
    /\ \E c \in TrackerConfigs : max_age = c.max_age /\ n_init = c.n_init
    /\ idx_frame = 0
    /\ videoFrames = << >>
    /\ last_out = None
    /\ outputs = None
    /\ playerBoxes = << >>
    /\ playerBoxes_list = << >>
    /\ colors = << >>
    /\ tracks = << >>
    /\ next_id = 1
    /\ res = << >>
    /\ passed = << >>
    /\ lastFrame = [read |-> FALSE]
    /\ emitted = << >>
    /\ absent = << >>
    /\ retired = {}
    /\ recordedUnder = {}
    /\ aug = [applied |-> FALSE]

\* with VideoTracker(args, yolo_detector) as vdo_trk: __enter__ either
\* returns, and run starts, or raises AssertionError.
Enter ==
    /\ pc = "constructed"
    /\ pc' = IF EnterPasses(io) THEN "entered" ELSE "aborted"
    /\ UNCHANGED <<io, frame_interval, max_age, n_init, idx_frame, videoFrames,
                   last_out, outputs, playerBoxes, playerBoxes_list, colors,
                   tracks, next_id, res, passed, lastFrame, emitted, absent,
                   retired, recordedUnder, aug>>

\* One iteration of the loop of run on a frame whose index is a multiple of
\* frame_interval (main.py 157-180, 184).
FrameProcess ==
    /\ pc = "entered"
    /\ Grabbable
    /\ idx_frame % frame_interval = 0
    /\ \E rows \in DetectorOutputs :
         \E it \in {image_track(rows, tracks, next_id, max_age, n_init, idx_frame)} :
             /\ res' = rows
             /\ passed' = it.passed
             /\ tracks' = it.tracks
             /\ next_id' = it.next_id
             /\ retired' = retired \cup it.purged
             /\ outputs' = Some(it.outputs)
             /\ last_out' = Some(it.outputs)
             /\ playerBoxes' = RecordOutputs(playerBoxes, it.outputs, idx_frame)
             /\ recordedUnder' = recordedUnder \cup
                   {<<PlayerId(it.outputs[i]), <<it.outputs[i].born, it.outputs[i].xyxy>>>> :
                       i \in DOMAIN it.outputs}
             /\ lastFrame' =
                   [read |-> TRUE, idx |-> idx_frame,
                    detector |-> TRUE, tracker |-> it.updated,
                    seen |-> SeenBoxes(it.passed),
                    live |-> LiveIds,
                    predicted |-> IF it.updated THEN LiveIds ELSE {}]
             /\ emitted' = Append(emitted, IdsOf(Some(it.outputs)))
             /\ absent' =
                   [id \in {it.tracks[i].track_id : i \in DOMAIN it.tracks} |->
                       LET t == CHOOSE u \in Range(it.tracks) : u.track_id = id
                       IN  IF t.box \in SeenBoxes(it.passed) THEN 0
                           ELSE absent[id] + 1]
    /\ videoFrames' = Append(videoFrames, FrameShape)
    /\ idx_frame' = idx_frame + 1
    /\ UNCHANGED <<io, pc, frame_interval, max_age, n_init, playerBoxes_list,
                   colors, aug>>

\* One iteration of the loop on any other frame (main.py 157-164, 181-184).
FrameSkip ==
    /\ pc = "entered"
    /\ Grabbable
    /\ idx_frame % frame_interval # 0
    /\ outputs' = last_out
    /\ videoFrames' = Append(videoFrames, FrameShape)
    /\ idx_frame' = idx_frame + 1
    /\ lastFrame' =
          [read |-> TRUE, idx |-> idx_frame, detector |-> FALSE,
           tracker |-> FALSE, seen |-> {}, live |-> LiveIds, predicted |-> {}]
    /\ emitted' = Append(emitted, IdsOf(last_out))
    /\ absent' = [id \in DOMAIN absent |-> absent[id] + 1]
    /\ UNCHANGED <<io, pc, frame_interval, max_age, n_init, last_out,
                   playerBoxes, playerBoxes_list, colors, tracks, next_id,
                   res, passed, retired, recordedUnder, aug>>

\* grab() fails: the loop ends and run returns (main.py 191-198).
Return ==
    /\ pc = "entered"
    /\ playerBoxes_list' = transform_playerBoxes_to_list(videoFrames, playerBoxes)
    /\ colors' = Colors(playerBoxes_list')
    /\ pc' = "done"
    /\ UNCHANGED <<io, frame_interval, max_age, n_init, idx_frame, videoFrames,
                   last_out, outputs, playerBoxes, tracks, next_id, res,
                   passed, lastFrame, emitted, absent, retired, recordedUnder,
                   aug>>

Next == Enter \/ FrameProcess \/ FrameSkip \/ Return

Spec == Init /\ [][Next]_vars

\* The pure function augment_deepsort_bbox applied to bounded inputs.
InitAugment ==
    /\ Init
    /\ io = [cam |-> -1, isfile |-> TRUE, isOpened |-> TRUE, ret |-> TRUE]
    /\ frame_interval = 1
    /\ n_init = 3

NextAugment == ApplyAugment

SpecAugment == InitAugment /\ [][NextAugment]_vars

-----------------------------------------------------------------------------
(* Properties *)

\* C1: on every frame read by run, every track that is live at that frame gets
\* its motion-state update (the tracker's predict), also on a frame on which
\* no person is detected.
C1_OneMotionUpdatePerFrame ==
    lastFrame.read => lastFrame.predicted = lastFrame.live

\* C2: a malformed detection is never handed to deepsort.update, and the
\* well-formed person rows of the same frame still are.
C2_MalformedRejected ==
    /\ \A j \in DOMAIN passed : WellFormed(passed[j])
    /\ \A i \in DOMAIN res :
          (WellFormed(res[i]) /\ res[i].cls = PersonClass)
             => res[i] \in Range(passed)

\* C3: once another (well-formed) object has been detected on a frame, no
\* track is left in the table that has gone more than max_age frames in a row
\* without a detection of its own, and a purged track is never back in the
\* table.
C3_DeletedAfterMaxAge ==
    /\ (lastFrame.read /\ \E b \in lastFrame.seen : b[3] > 0 /\ b[4] > 0)
          => \A id \in LiveIds : absent[id] <= max_age
    /\ LiveIds \cap retired = {}

\* C4: identities increase strictly in creation order, an identity is never
\* handed out again after its track was purged, and every key of playerBoxes
\* stands for one single track.
C4_IdentitiesNeverReused ==
    /\ \A i, j \in DOMAIN tracks :
          i < j => /\ tracks[i].track_id < tracks[j].track_id
                   /\ tracks[i].born <= tracks[j].born
    /\ \A i \in DOMAIN tracks : tracks[i].track_id < next_id
    /\ \A id \in retired : id < next_id /\ id \notin LiveIds
    /\ \A i, j \in DOMAIN playerBoxes :
          playerBoxes[i].key = playerBoxes[j].key => i = j
    /\ \A p, q \in recordedUnder : p[1] = q[1] => p[2] = q[2]

\* C4 witness: a track has been purged, later tracks with larger identities
\* are live, and two players have been recorded.
C4_Witness ==
    /\ retired # {}
    /\ \E id \in LiveIds : \A old \in retired : old < id
    /\ Len(playerBoxes) >= 2

\* C5: every identity in the frame's outputs, and every key recorded in
\* playerBoxes for the frame, belongs to a track of the live table that is
\* confirmed and has reached n_init hits.
C5_OnlyConfirmedEmitted ==
    LET Shown(id) ==
           \E t \in Range(tracks) :
              t.track_id = id /\ t.state = "confirmed" /\ t.hits >= n_init
    IN  /\ \A id \in IdsOf(outputs) : Shown(id)
        /\ \A r \in DOMAIN playerBoxes :
              (lastFrame.read /\ lastFrame.idx \in DOMAIN playerBoxes[r].boxes)
                 => Shown(playerBoxes[r].key)

\* C5 witness: a frame whose outputs show a confirmed track while a tentative
\* track is in the table.
C5_Witness ==
    /\ IdsOf(outputs) # {}
    /\ \E t \in Range(tracks) :
          t.state = "tentative" /\ t.track_id \notin IdsOf(outputs)
    /\ \E r \in DOMAIN playerBoxes : lastFrame.idx \in DOMAIN playerBoxes[r].boxes

\* C6: when the input fails to open, entering the context aborts the pipeline
\* and neither the detector nor the tracker has ever been called.
C6_IOFailureAborts ==
    (IOFailed(io) /\ pc # "constructed")
       => /\ pc = "aborted"
          /\ ~lastFrame.read
          /\ videoFrames = << >>
          /\ tracks = << >> /\ next_id = 1

\* C6 witness: the pipeline aborted on a capture that did not open.
C6_Witness == pc = "aborted" /\ IOFailed(io) /\ ~io.isOpened

\* C7: every row handed to deepsort.update is of the person class, and no row
\* of another class is.
C7_OnlyTargetClass ==
    /\ \A j \in DOMAIN passed : passed[j].cls = PersonClass
    /\ \A i \in DOMAIN res :
          res[i].cls # PersonClass => res[i] \notin Range(passed)

\* C7 witness: the detector reported a person and a row of another class, and
\* the tracker was called.
C7_Witness ==
    /\ lastFrame.read /\ lastFrame.tracker
    /\ \E i \in DOMAIN res : res[i].cls # PersonClass
    /\ passed # << >>

\* The last processed frame at or before frame n (frames counted from 1 here).
LastProcessed(n) == n - ((n - 1) % frame_interval)

\* C8: the detector and the tracker run on the frames whose index is a
\* multiple of frame_interval and on no other, and the boxes returned for a
\* skipped frame are those of the most recent processed frame.
C8_SkippedFramesReuseLast ==
    /\ lastFrame.read =>
          /\ lastFrame.detector <=> (lastFrame.idx % frame_interval = 0)
          /\ lastFrame.tracker => (lastFrame.idx % frame_interval = 0)
    /\ pc = "done" =>
          \A n \in DOMAIN playerBoxes_list :
             playerBoxes_list[n] = playerBoxes_list[LastProcessed(n)]

\* The identities emitted during the whole run.
EmittedIds == UNION Range(emitted)

\* C9: the returned list has one entry per grabbed frame, every entry has one
\* row per identity emitted during the run, at the same index in every frame,
\* a row is <<0, 0, 0, 0>> exactly when its identity was not emitted on that
\* frame, and colors has one entry per identity.
C9_BoxForEveryFrame ==
    pc = "done" =>
       /\ Len(playerBoxes_list) = Len(videoFrames)
       /\ Keys(playerBoxes) = EmittedIds
       /\ Len(playerBoxes) = Cardinality(EmittedIds)
       /\ \A n \in DOMAIN playerBoxes_list :
             /\ Len(playerBoxes_list[n]) = Cardinality(EmittedIds)
             /\ \A r \in DOMAIN playerBoxes_list[n] :
                   (playerBoxes_list[n][r] = <<0, 0, 0, 0>>)
                      <=> (playerBoxes[r].key \notin emitted[n])
       /\ Len(colors) = Cardinality(EmittedIds)

\* The box scaled about its center fits in the frame.
Fits(a) ==
    LET b == a.bbox
    IN  /\ 20 * b[1] + 10 * b[3] - b[3] * a.width_ratio >= 0
        /\ 20 * b[2] + 10 * b[4] - b[4] * a.height_ratio >= 0
        /\ 20 * b[1] + 10 * b[3] + b[3] * a.width_ratio <= 20 * a.frame_width
        /\ 20 * b[2] + 10 * b[4] + b[4] * a.height_ratio <= 20 * a.frame_height

CenterAndScaleKept(a, out) ==
    /\ 2 * out[1] + out[3] = 2 * a.bbox[1] + a.bbox[3]
    /\ 2 * out[2] + out[4] = 2 * a.bbox[2] + a.bbox[4]
    /\ 10 * out[3] = a.bbox[3] * a.width_ratio
    /\ 10 * out[4] = a.bbox[4] * a.height_ratio

=============================================================================
